---------------------------- MODULE Spec2Model ----------------------------
(***************************************************************************)
(* A model of the regex-gen pipeline:                                      *)
(*   pattern --parse--> RegexItem --nfa_graph--> NFAGraph                  *)
(*           --TransTable::from_nfa--> TransTable --as_dfa--> TransTable   *)
(*           --ExecuteEngine::exact_match--> bool                          *)
(* Characters are numbers (code points); a string is a sequence of them.   *)
(* A value of type States (BTreeSet<usize>) is always built by set![x]     *)
(* from one id, so it is represented by that id.                           *)
(***************************************************************************)
EXTENDS Integers, Sequences, FiniteSets, TLC

VARIABLES
    pattern,    \* the pattern handed to RegexItem::from
    ID_SEQ,     \* node.rs: the process-wide id counter
    pc,         \* position of the driver: new, parsed, printed, nfa, table, table_reset,
                \* dfa, dfa_reset, matched, panic
    err,        \* which panic ended the run ("none" while running)
    ast,        \* the RegexItem returned by the parser
    printed,    \* the string to_string returned for the RegexItem
    nfa,        \* the NFAGraph returned by RegexItem::nfa_graph
    table,      \* the TransTable (from_nfa, then as_dfa in place)
    input,      \* the string handed to exact_match
    matched,    \* the result of exact_match
    prev,       \* the table of the previous compilation of the same pattern
    prevMatched,\* the result of exact_match on the previous compilation's table
    workers,    \* the NFA constructions running in parallel: for each, its pattern
                \* and the ids its Node::new calls have returned so far
    walk,       \* the call stack and the locals of a traversal of the table in progress
    probe       \* two edges and what Edge::intersect returned for them, both ways round

vars == <<pattern, ID_SEQ, pc, err, ast, printed, nfa, table, input, matched, prev, prevMatched,
          workers, walk, probe>>

\* ------------------------------------------------------------- characters

\* The code point of each character the model names.
Ord ==
    [ch \in {"\n", "(", ")", "*", "+", "-", ".", "0", "9", "?", "A", "Z", "[", "\\", "]",
             "^", "a", "b", "c", "d", "n", "x", "z", "|"} |->
        CASE ch = "\n" -> 10
          [] ch = "(" -> 40  [] ch = ")" -> 41  [] ch = "*" -> 42  [] ch = "+" -> 43
          [] ch = "-" -> 45  [] ch = "." -> 46  [] ch = "0" -> 48  [] ch = "9" -> 57
          [] ch = "?" -> 63  [] ch = "A" -> 65  [] ch = "Z" -> 90  [] ch = "[" -> 91
          [] ch = "\\" -> 92 [] ch = "]" -> 93  [] ch = "^" -> 94  [] ch = "a" -> 97
          [] ch = "b" -> 98  [] ch = "c" -> 99  [] ch = "d" -> 100 [] ch = "n" -> 110
          [] ch = "x" -> 120
          [] ch = "z" -> 122 [] ch = "|" -> 124]

\* A string literal, written as a tuple of one-character strings.
Str(t) == [i \in DOMAIN t |-> Ord[t[i]]]

\* `c as u8`: a char is cut to its low eight bits.
AsU8(c) == c % 256

NL == Ord["\n"]
LPAREN == Ord["("]
RPAREN == Ord[")"]
STAR == Ord["*"]
PLUS == Ord["+"]
MINUS == Ord["-"]
DOT == Ord["."]
QUESTION == Ord["?"]
LBRACKET == Ord["["]
BACKSLASH == Ord["\\"]
RBRACKET == Ord["]"]
CARET == Ord["^"]
PIPE == Ord["|"]

\* ------------------------------------------------------------------- AST

\* RegexUnit: one record shape for the seven variants; unused fields are 0 / <<>>.
Unit(u, c, e, list) == [u |-> u, c |-> c, e |-> e, list |-> list]
Character(c) == Unit("Character", c, 0, <<>>)
CharacterRange(s, e) == Unit("CharacterRange", s, e, <<>>)
NotCharacter(c) == Unit("NotCharacter", c, 0, <<>>)
NotUnits(list) == Unit("NotUnits", 0, 0, list)
UnitChoice(list) == Unit("UnitChoice", 0, 0, list)
ItemList(list) == Unit("ItemList", 0, 0, list)
ItemChoice(list) == Unit("ItemChoice", 0, 0, list)

\* RegexItem
RegexItem(unit, annotation) == [unit |-> unit, annotation |-> annotation]

NoItem == RegexItem(Character(0), "none")

\* ---------------------------------------------------------------- parser

\* RegexParserResult with the parser's remaining input: Ok(item) / Err(()),
\* or a panic raised while parsing.
Ok(item, rest) == [ok |-> TRUE, panic |-> FALSE, item |-> item, rest |-> rest]
Err(rest) == [ok |-> FALSE, panic |-> FALSE, item |-> NoItem, rest |-> rest]
Panic(rest) == [ok |-> FALSE, panic |-> TRUE, item |-> NoItem, rest |-> rest]

Rest(s) == SubSeq(s, 2, Len(s))
Rest2(s) == SubSeq(s, 3, Len(s))
Rest3(s) == SubSeq(s, 4, Len(s))

\* parse_annotation: the annotation and the input left.
parse_annotation(inp) ==
    IF inp = <<>> THEN [annotation |-> "StandAlone", rest |-> inp]
    ELSE IF Head(inp) = QUESTION THEN [annotation |-> "OneOrZero", rest |-> Rest(inp)]
    ELSE IF Head(inp) = PLUS THEN [annotation |-> "GreaterZero", rest |-> Rest(inp)]
    ELSE IF Head(inp) = STAR THEN [annotation |-> "AnyOccurs", rest |-> Rest(inp)]
    ELSE [annotation |-> "StandAlone", rest |-> inp]

\* Ok(RegexItem { unit, annotation: self.parse_annotation() })
OkAnnotated(unit, inp) ==
    LET a == parse_annotation(inp) IN Ok(RegexItem(unit, a.annotation), a.rest)

parse_character_escape(inp) ==
    LET after == Rest(inp) IN
    IF after = <<>> THEN Err(after)
    ELSE IF Head(after) = Ord["d"]
         THEN OkAnnotated(CharacterRange(Ord["0"], Ord["9"]), Rest(after))
         ELSE OkAnnotated(Character(AsU8(Head(after))), Rest(after))

parse_character(inp) ==
    IF inp = <<>> THEN Err(inp)
    ELSE IF Head(inp) = BACKSLASH THEN parse_character_escape(inp)
    ELSE IF Head(inp) = DOT THEN OkAnnotated(NotCharacter(NL), Rest(inp))
    ELSE OkAnnotated(Character(AsU8(Head(inp))), Rest(inp))

\* The arms Some('a'), Some('A'), Some('0') of parse_character_group's loop:
\* lo, then `-hi` makes the range, `-` and anything else is an error.
RECURSIVE group_loop(_, _, _)
range_arm(inp, items, not, lo, hi) ==
    IF Len(inp) >= 2 /\ inp[2] = MINUS
    THEN IF Len(inp) >= 3 /\ inp[3] = hi
         THEN group_loop(Rest3(inp), Append(items, CharacterRange(lo, hi)), not)
         ELSE Err(IF Len(inp) >= 3 THEN Rest3(inp) ELSE <<>>)
    ELSE group_loop(Rest(inp), Append(items, Character(lo)), not)

\* The loop of parse_character_group.
group_loop(inp, items, not) ==
    IF inp = <<>> THEN Err(inp)
    ELSE LET c == Head(inp) IN
         IF c = BACKSLASH
         THEN IF Len(inp) < 2 THEN Err(<<>>)
              ELSE IF inp[2] = Ord["d"]
                   THEN group_loop(Rest2(inp), Append(items, CharacterRange(Ord["0"], Ord["9"])), not)
                   ELSE group_loop(Rest2(inp), Append(items, Character(AsU8(inp[2]))), not)
         ELSE IF c = Ord["a"] THEN range_arm(inp, items, not, Ord["a"], Ord["z"])
         ELSE IF c = Ord["A"] THEN range_arm(inp, items, not, Ord["A"], Ord["Z"])
         ELSE IF c = Ord["0"] THEN range_arm(inp, items, not, Ord["0"], Ord["9"])
         ELSE IF c = RBRACKET
              THEN OkAnnotated(IF not THEN NotUnits(items) ELSE UnitChoice(items), Rest(inp))
         ELSE group_loop(Rest(inp), Append(items, Character(AsU8(c))), not)

parse_character_group(inp) ==
    LET a == Rest(inp)
        not == a # <<>> /\ Head(a) = CARET
        b == IF not THEN Rest(a) ELSE a
        dash == b # <<>> /\ Head(b) = MINUS
        c == IF dash THEN Rest(b) ELSE b
    IN  group_loop(c, IF dash THEN <<Character(MINUS)>> ELSE <<>>, not)

RECURSIVE parse(_)
RECURSIVE item_group_loop(_, _, _)

\* The loop of parse_item_group; `(&buffer[..]).into()` is RegexItem::from,
\* which parses the buffer with a parser of its own and unwraps the result.
item_group_loop(inp, items, buffer) ==
    IF inp = <<>> THEN Err(inp)
    ELSE LET c == Head(inp) IN
         IF c = RPAREN \/ c = PIPE
         THEN LET sub == parse(buffer) IN
              IF ~sub.ok THEN Panic(Rest(inp))
              ELSE IF c = RPAREN
                   THEN OkAnnotated(ItemChoice(Append(items, sub.item)), Rest(inp))
                   ELSE item_group_loop(Rest(inp), Append(items, sub.item), <<>>)
         ELSE item_group_loop(Rest(inp), items, Append(buffer, c))

parse_item_group(inp) == item_group_loop(Rest(inp), <<>>, <<>>)

dispatch(inp) ==
    IF inp = <<>> THEN Err(inp)
    ELSE IF Head(inp) = LBRACKET THEN parse_character_group(inp)
    ELSE IF Head(inp) = LPAREN THEN parse_item_group(inp)
    ELSE parse_character(inp)

\* The `while let Ok(item) = self.dispatch()` loop of parse and what follows it.
RECURSIVE parse_loop(_, _)
parse_loop(inp, items) ==
    LET r == dispatch(inp) IN
    IF r.ok THEN parse_loop(r.rest, Append(items, r.item))
    ELSE IF r.panic THEN r
    ELSE IF parse_annotation(r.rest).annotation # "StandAlone" THEN Panic(r.rest)
    ELSE Ok(RegexItem(ItemList(items), "StandAlone"), r.rest)

parse(inp) == parse_loop(inp, <<>>)


\* ------------------------------------------------------------- to_string

RECURSIVE unit_to_string(_)
RECURSIVE item_to_string(_)
RECURSIVE units_to_string(_, _)
RECURSIVE items_to_string(_, _, _)

\* The `for i in list { r.push_str(&i.to_string()) }` loops over units.
units_to_string(list, i) ==
    IF i > Len(list) THEN <<>>
    ELSE unit_to_string(list[i]) \o units_to_string(list, i + 1)

\* The same loop over items, with `sep` pushed before every item after the first.
items_to_string(list, i, sep) ==
    IF i > Len(list) THEN <<>>
    ELSE (IF i > 1 THEN sep ELSE <<>>) \o item_to_string(list[i])
         \o items_to_string(list, i + 1, sep)

unit_to_string(unit) ==
    CASE unit.u = "Character" ->
            IF unit.c = NL THEN <<BACKSLASH, Ord["n"]>> ELSE <<unit.c>>
      [] unit.u = "CharacterRange" -> <<unit.c, MINUS, unit.e>>
      [] unit.u = "NotCharacter" ->
            IF unit.c = NL THEN <<DOT>> ELSE <<LBRACKET, CARET, unit.c, RBRACKET>>
      [] unit.u = "NotUnits" ->
            <<LBRACKET, CARET>> \o units_to_string(unit.list, 1) \o <<RBRACKET>>
      [] unit.u = "UnitChoice" ->
            <<LBRACKET>> \o units_to_string(unit.list, 1) \o <<RBRACKET>>
      [] unit.u = "ItemChoice" ->
            <<LPAREN>> \o items_to_string(unit.list, 1, <<PIPE>>) \o <<RPAREN>>
      [] unit.u = "ItemList" -> items_to_string(unit.list, 1, <<>>)

item_to_string(item) ==
    unit_to_string(item.unit) \o
        (CASE item.annotation = "AnyOccurs" -> <<STAR>>
           [] item.annotation = "OneOrZero" -> <<QUESTION>>
           [] item.annotation = "GreaterZero" -> <<PLUS>>
           [] OTHER -> <<>>)

\* ------------------------------------------------------------------ node

\* EdgeMatches, and None for the predicate of an epsilon edge.
None == [m |-> "None", c |-> 0, e |-> 0, list |-> <<>>]
MCharacter(c) == [m |-> "Character", c |-> c, e |-> 0, list |-> <<>>]
MCharacterRange(s, e) == [m |-> "CharacterRange", c |-> s, e |-> e, list |-> <<>>]
MNot(list) == [m |-> "Not", c |-> 0, e |-> 0, list |-> list]

\* Edge::new(dest, matches)
Edge(dest, matches) == [matches |-> matches, next_node |-> dest]

\* Node { id, edges } and NFAGraph { start, end, sub_graphs }
Node(id, edges) == [id |-> id, edges |-> edges]
NFAGraph(start, end, sub_graphs) == [start |-> start, end |-> end, sub_graphs |-> sub_graphs]

\* NFAGraph::new(): two Node::new() calls, start first; each takes
\* ID_SEQ.fetch_add(1), so with the counter at `next` the ids are next, next + 1.
NFAGraph_new(next) == NFAGraph(Node(next, <<>>), Node(next + 1, <<>>), <<>>)

\* NFAGraph::from_id
NFAGraph_from_id(start, end) == NFAGraph(Node(start, <<>>), Node(end, <<>>), <<>>)

\* graph.start_mut().connect(set![dest], matches)
connect_start(g, dest, matches) == [g EXCEPT !.start.edges = Append(@, Edge(dest, matches))]
\* graph.end_mut().connect(set![dest], matches)
connect_end(g, dest, matches) == [g EXCEPT !.end.edges = Append(@, Edge(dest, matches))]

\* A variant of the match below whose range leaves out its low end.
simple_match_open_low(m, c) ==
    CASE m.m = "Character" -> c = m.c
      [] m.m = "CharacterRange" -> c > m.c /\ c <= m.e
      [] OTHER -> FALSE

\* match_character of EdgeMatches: list of a Not holds Character and CharacterRange only.
simple_match(m, c) ==
    CASE m.m = "Character" -> c = m.c
      [] m.m = "CharacterRange" -> c >= m.c /\ c <= m.e
      [] OTHER -> FALSE

EdgeMatches_match_character(m, c) ==
    CASE m.m = "Not" -> ~\E i \in DOMAIN m.list : simple_match(m.list[i], c)
      [] OTHER -> simple_match(m, c)

\* Edge::match_character: an epsilon edge matches nothing.
match_character(edge, c) ==
    IF edge.matches.m = "None" THEN FALSE ELSE EdgeMatches_match_character(edge.matches, c)

\* range_intersect
range_intersect(ls, le, rs, re) ==
    \/ rs <= ls /\ ls <= re
    \/ rs <= le /\ le <= re
    \/ ls <= rs /\ rs <= le
    \/ ls <= re /\ re <= le

\* EdgeMatches::intersect: the arms in the order of the match; (*s..*e) leaves
\* out e, and the last arm swaps the two sides.
RECURSIVE EdgeMatches_intersect(_, _)
EdgeMatches_intersect(self, rhs) ==
    IF self.m = "Not" /\ rhs.m = "Not" THEN TRUE
    ELSE IF self.m = "Character" THEN EdgeMatches_match_character(rhs, self.c)
    ELSE IF self.m = "CharacterRange" /\ rhs.m = "CharacterRange"
         THEN range_intersect(self.c, self.e, rhs.c, rhs.e)
    ELSE IF self.m = "Not" /\ rhs.m = "CharacterRange"
         THEN \A x \in rhs.c..(rhs.e - 1) : EdgeMatches_match_character(self, x)
    ELSE EdgeMatches_intersect(rhs, self)

\* Edge::intersect: false when either edge is an epsilon edge.
intersect(self, e) ==
    IF self.matches.m # "None" /\ e.matches.m # "None"
    THEN EdgeMatches_intersect(self.matches, e.matches)
    ELSE FALSE


\* ------------------------------------------------------------- nfa_graph

\* The result of building a graph with the counter at `next`: the graph, the
\* counter after it, and the panic that stopped the construction, if any.
Built(g, next) == [g |-> g, next |-> next, panic |-> "none"]
BuildPanic(what, next) == [g |-> NFAGraph_from_id(0, 0), next |-> next, panic |-> what]

\* The `matches` vector RegexUnit::nfa_graph builds for NotUnits.
RECURSIVE not_matches(_, _)
not_matches(list, i) ==
    IF i > Len(list) THEN <<>>
    ELSE <<(IF list[i].u = "Character" THEN MCharacter(list[i].c)
            ELSE MCharacterRange(list[i].c, list[i].e))>> \o not_matches(list, i + 1)

\* Whether the NotUnits arm reaches its unimplemented!() branch.
not_unimplemented(list) ==
    \E i \in DOMAIN list : list[i].u \notin {"Character", "CharacterRange"}

RECURSIVE unit_nfa_graph(_, _)
RECURSIVE nfa_graph(_, _)
RECURSIVE choice_loop(_, _, _, _, _)
RECURSIVE list_graphs(_, _, _, _)
RECURSIVE chain(_, _)

\* The `for item in list` loop of the UnitChoice and ItemChoice arms: build the
\* sub graph, connect start to it and it to end_id, keep it in sub_graphs.
choice_loop(list, i, isItems, graph, next) ==
    IF i > Len(list) THEN Built(graph, next)
    ELSE LET b == IF isItems THEN nfa_graph(list[i], next)
                  ELSE unit_nfa_graph(list[i], next) IN
         IF b.panic # "none" THEN b
         ELSE LET g == connect_end(b.g, graph.end.id, None)
                  outer == connect_start(graph, g.start.id, None)
              IN  choice_loop(list, i + 1, isItems,
                              [outer EXCEPT !.sub_graphs = Append(@, g)], b.next)

\* list.iter().map(|x| x.nfa_graph()).collect() of the ItemList arm.
list_graphs(list, i, gs, next) ==
    IF i > Len(list) THEN [gs |-> gs, next |-> next, panic |-> "none"]
    ELSE LET b == nfa_graph(list[i], next) IN
         IF b.panic # "none" THEN [gs |-> gs, next |-> b.next, panic |-> b.panic]
         ELSE list_graphs(list, i + 1, Append(gs, b.g), b.next)

\* for i in 0..(gs.len() - 1) { gs[i].end_mut().connect(set![gs[i + 1].start_id()], None) }
chain(gs, i) ==
    IF i >= Len(gs) THEN gs
    ELSE chain([gs EXCEPT ![i] = connect_end(@, gs[i + 1].start.id, None)], i + 1)

\* RegexUnit::nfa_graph
unit_nfa_graph(unit, next) ==
    CASE unit.u = "Character" ->
            Built(connect_start(NFAGraph_new(next), next + 1, MCharacter(unit.c)), next + 2)
      [] unit.u = "CharacterRange" ->
            Built(connect_start(NFAGraph_new(next), next + 1,
                                MCharacterRange(unit.c, unit.e)), next + 2)
      [] unit.u = "NotCharacter" ->
            Built(connect_start(NFAGraph_new(next), next + 1,
                                MNot(<<MCharacter(unit.c)>>)), next + 2)
      [] unit.u = "NotUnits" ->
            IF not_unimplemented(unit.list) THEN BuildPanic("unimplemented", next + 2)
            ELSE Built(connect_start(NFAGraph_new(next), next + 1,
                                     MNot(not_matches(unit.list, 1))), next + 2)
      [] unit.u = "UnitChoice" ->
            choice_loop(unit.list, 1, FALSE, NFAGraph_new(next), next + 2)
      [] unit.u = "ItemList" ->
            IF Len(unit.list) = 0 THEN BuildPanic("assert_list_len", next)
            ELSE LET b == list_graphs(unit.list, 1, <<>>, next) IN
                 IF b.panic # "none" THEN BuildPanic(b.panic, b.next)
                 ELSE LET graph == NFAGraph_from_id(b.gs[1].start.id, b.gs[Len(b.gs)].end.id)
                      IN  Built([graph EXCEPT !.sub_graphs = chain(b.gs, 1)], b.next)
      [] unit.u = "ItemChoice" ->
            choice_loop(unit.list, 1, TRUE, NFAGraph_new(next), next + 2)

\* A variant of RegexItem::nfa_graph whose `+` connects start to end.
nfa_graph_plus_forward(item, next) ==
    LET b == unit_nfa_graph(item.unit, next) IN
    IF b.panic # "none" THEN b
    ELSE LET end_id == b.g.end.id
             start_id == b.g.start.id
         IN  CASE item.annotation = "OneOrZero" ->
                    Built(connect_start(b.g, end_id, None), b.next)
               [] item.annotation = "GreaterZero" ->
                    Built(connect_start(b.g, end_id, None), b.next)
               [] item.annotation = "AnyOccurs" ->
                    Built(connect_end(connect_start(b.g, end_id, None), start_id, None), b.next)
               [] OTHER -> b

\* RegexItem::nfa_graph
nfa_graph(item, next) ==
    LET b == unit_nfa_graph(item.unit, next) IN
    IF b.panic # "none" THEN b
    ELSE LET end_id == b.g.end.id
             start_id == b.g.start.id
         IN  CASE item.annotation = "OneOrZero" ->
                    Built(connect_start(b.g, end_id, None), b.next)
               [] item.annotation = "GreaterZero" ->
                    Built(connect_end(b.g, start_id, None), b.next)
               [] item.annotation = "AnyOccurs" ->
                    Built(connect_end(connect_start(b.g, end_id, None), start_id, None), b.next)
               [] OTHER -> b

\* ------------------------------------------------------------ transtable

\* TransTable { start, end, states, trans }
TransTable(start, end, states, trans) ==
    [start |-> start, end |-> end, states |-> states, trans |-> trans]

NoTable == TransTable(0, {}, {}, <<>>)

RECURSIVE append_states(_)
RECURSIVE append_states_subs(_, _)
append_states_subs(subs, i) ==
    IF i > Len(subs) THEN {} ELSE append_states(subs[i]) \cup append_states_subs(subs, i + 1)

\* append_states: the ids it inserts into table.states.
append_states(g) == {g.start.id, g.end.id} \cup append_states_subs(g.sub_graphs, 1)

\* TransTable::append_edges: trans.entry(state).or_insert(vec![]).append(edges)
append_edges(trans, state, edges) ==
    IF state \in DOMAIN trans THEN [trans EXCEPT ![state] = @ \o edges]
    ELSE [q \in DOMAIN trans \cup {state} |-> IF q = state THEN edges ELSE trans[q]]

RECURSIVE append_trans(_, _)
RECURSIVE append_trans_subs(_, _, _)
append_trans_subs(trans, subs, i) ==
    IF i > Len(subs) THEN trans
    ELSE append_trans_subs(append_trans(trans, subs[i]), subs, i + 1)

\* append_trans: the start node's edges, the end node's, then the sub graphs.
append_trans(trans, g) ==
    append_trans_subs(
        append_edges(append_edges(trans, g.start.id, g.start.edges), g.end.id, g.end.edges),
        g.sub_graphs, 1)

EmptyTrans == [q \in {} |-> <<>>]

\* TransTable::from_nfa
from_nfa(g) ==
    TransTable(g.start.id, {g.end.id}, append_states(g), append_trans(EmptyTrans, g))

state_count(t) == Cardinality(t.states)

RECURSIVE SumLens(_, _)
SumLens(trans, keys) ==
    IF keys = {} THEN 0
    ELSE LET q == CHOOSE x \in keys : TRUE IN Len(trans[q]) + SumLens(trans, keys \ {q})

edge_count(t) == SumLens(t.trans, DOMAIN t.trans)


\* What stands for the state `self.trans.get(state).unwrap()` was called on when
\* the key is absent: the call panics, and the marker carries that outwards.
MissingKey == 0 - 1

\* has_epsilon_edge / has_nontrivial_edge (callers pass keys of trans)
has_epsilon_edge(t, state) ==
    \E i \in DOMAIN t.trans[state] : t.trans[state][i].matches.m = "None"
has_nontrivial_edge(t, state) ==
    \E i \in DOMAIN t.trans[state] : t.trans[state][i].matches.m # "None"

RECURSIVE epsilon_move_internal(_, _, _)
RECURSIVE epsilon_move_edges(_, _, _, _)

\* The `for e in ... .filter(|x| x.matches().is_none())` loop of epsilon_move_internal.
epsilon_move_edges(t, edges, i, visited) ==
    IF i > Len(edges) THEN visited
    ELSE IF edges[i].matches.m = "None"
         THEN epsilon_move_edges(t, edges, i + 1,
                                 epsilon_move_internal(t, edges[i].next_node, visited))
         ELSE epsilon_move_edges(t, edges, i + 1, visited)

\* epsilon_move_internal: the visited set after the call.
epsilon_move_internal(t, state, visited) ==
    IF state \in visited THEN visited
    ELSE IF state \notin DOMAIN t.trans THEN visited \cup {state, MissingKey}
    ELSE epsilon_move_edges(t, t.trans[state], 1, visited \cup {state})

\* A variant of epsilon_move that stops after one epsilon edge.
epsilon_move_one_step(t, state) ==
    {x \in {t.trans[state][i].next_node :
                i \in {k \in DOMAIN t.trans[state] : t.trans[state][k].matches.m = "None"}} :
        x # state /\ (x \in t.end \/ has_nontrivial_edge(t, x))}

\* A variant of epsilon_move whose filter lacks `x != state`.
epsilon_move_with_self(t, state) ==
    LET r == epsilon_move_internal(t, state, {}) IN
    IF MissingKey \in r THEN {MissingKey}
    ELSE {x \in r : x \in t.end \/ has_nontrivial_edge(t, x)}

\* epsilon_move
epsilon_move(t, state) ==
    LET r == epsilon_move_internal(t, state, {}) IN
    IF MissingKey \in r THEN {MissingKey}
    ELSE {x \in r : x # state /\ (x \in t.end \/ has_nontrivial_edge(t, x))}

\* A variant of posssible_nontrivial_edges that takes the edges of the first
\* member only.
posssible_nontrivial_edges_first(t, iter) ==
    IF iter = <<>> THEN <<>> ELSE t.trans[Head(iter)]

\* posssible_nontrivial_edges, with `iter` the order in which the HashSet that
\* epsilon_move returned is iterated: the edge lists of its members, flattened.
RECURSIVE posssible_nontrivial_edges(_, _)
posssible_nontrivial_edges(t, iter) ==
    IF iter = <<>> THEN <<>>
    ELSE t.trans[Head(iter)] \o posssible_nontrivial_edges(t, Tail(iter))

\* A variant of the scan below without `&& e.matches().is_some()`.
RECURSIVE useful_scan_any_edge(_, _, _, _)
useful_scan_any_edge(edges, i, useful_states, visit) ==
    IF i > Len(edges) THEN [useful_states |-> useful_states, visit |-> visit]
    ELSE LET n == edges[i].next_node IN
         IF \A k \in DOMAIN useful_states : useful_states[k] # n
         THEN useful_scan_any_edge(edges, i + 1, Append(useful_states, n), Append(visit, n))
         ELSE useful_scan_any_edge(edges, i + 1, useful_states, visit)

\* The scan of one state's edges in the `while let Some(state) = visit.pop()` loop.
RECURSIVE useful_scan(_, _, _, _)
useful_scan(edges, i, useful_states, visit) ==
    IF i > Len(edges) THEN [useful_states |-> useful_states, visit |-> visit]
    ELSE LET n == edges[i].next_node IN
         IF (\A k \in DOMAIN useful_states : useful_states[k] # n)
            /\ edges[i].matches.m # "None"
         THEN useful_scan(edges, i + 1, Append(useful_states, n), Append(visit, n))
         ELSE useful_scan(edges, i + 1, useful_states, visit)

\* The `collect all useful states` loop of as_dfa: the vector useful_states at its end.
RECURSIVE collect_useful(_, _, _)
collect_useful(t, useful_states, visit) ==
    IF visit = <<>> THEN useful_states
    ELSE LET state == visit[Len(visit)]
             popped == SubSeq(visit, 1, Len(visit) - 1)
         IN  IF state \notin DOMAIN t.trans THEN Append(useful_states, MissingKey)
             ELSE LET r == useful_scan(t.trans[state], 1, useful_states, popped)
                  IN  collect_useful(t, r.useful_states, r.visit)

\* edges.retain(|e| e.matches().is_some())
RECURSIVE retain_nontrivial(_)
retain_nontrivial(edges) ==
    IF edges = <<>> THEN <<>>
    ELSE (IF Head(edges).matches.m # "None" THEN <<Head(edges)>> ELSE <<>>)
         \o retain_nontrivial(Tail(edges))

Range(f) == {f[x] : x \in DOMAIN f}

\* A variant of the first block that leaves the end set as from_nfa built it.
mark_end_skipped(t) == t

\* The first block of as_dfa: every state whose epsilon_move holds the end state
\* joins the end set (epsilon_move is collected for all states before any insert).
mark_end(t) ==
    LET end == CHOOSE x \in t.end : TRUE IN
    [t EXCEPT !.end = @ \cup {state \in t.states : end \in epsilon_move(t, state)}]

\* A variant of the second block that appends nothing.
generate_edges_skipped(t, order) == t

\* The second block: the edges of every state with an epsilon edge are collected
\* (all of them, before any append), then appended; order[q] is the iteration
\* order of epsilon_move(q).
generate_edges(t, order) ==
    [t EXCEPT !.trans =
        [q \in DOMAIN t.trans |->
            IF q \in DOMAIN order
            THEN t.trans[q] \o posssible_nontrivial_edges(t, order[q])
            ELSE t.trans[q]]]

\* A variant of the third and fourth blocks whose self.trans.retain(..) also
\* drops the states that have no edge.
remove_unused_drop_leaves(t, useful_states) ==
    LET useful == Range(useful_states) IN
    TransTable(t.start, t.end \cap useful, t.states \cap useful,
               [q \in {x \in DOMAIN t.trans \cap useful : t.trans[x] # <<>>} |-> t.trans[q]])

\* A variant of the third and fourth blocks without self.trans.retain(..).
remove_unused_keep_trans(t, useful_states) ==
    LET useful == Range(useful_states) IN
    TransTable(t.start, t.end \cap useful, t.states \cap useful, t.trans)

\* The third and fourth blocks: keep the states found from start, drop the rest.
remove_unused(t, useful_states) ==
    LET useful == Range(useful_states) IN
    TransTable(t.start, t.end \cap useful, t.states \cap useful,
               [q \in DOMAIN t.trans \cap useful |-> t.trans[q]])

\* A variant of the fifth block that retains every edge.
remove_epsilon_skipped(t) == t

\* The fifth block: remove epsilon edges.
remove_epsilon(t) ==
    [t EXCEPT !.trans = [q \in DOMAIN t.trans |-> retain_nontrivial(t.trans[q])]]

\* Whether as_dfa panics on t before it appends an edge: an unwrap() of a missing
\* key in epsilon_move or has_epsilon_edge, or a failed assert!(self.end.len() == 1)
\* ("none" when it gets that far).
as_dfa_panic_early(t) ==
    IF \E q \in t.states : MissingKey \in epsilon_move(t, q) THEN "missing_key"
    ELSE IF Cardinality(t.end) # 1 THEN "assert_end_len"
    ELSE IF \E q \in t.states : q \notin DOMAIN t.trans THEN "missing_key"
    ELSE "none"

\* Whether as_dfa panics on t: as above, or an unwrap() of a missing key while it
\* collects the useful states.
as_dfa_panic(t, order) ==
    IF as_dfa_panic_early(t) # "none" THEN as_dfa_panic_early(t)
    ELSE IF MissingKey \in Range(collect_useful(generate_edges(mark_end(t), order),
                                                 <<t.start>>, <<t.start>>))
         THEN "missing_key"
    ELSE "none"

\* as_dfa (the intersection test at its end changes nothing and is left out).
as_dfa(t, order) ==
    LET grafted == generate_edges(mark_end(t), order)
    IN  remove_epsilon(remove_unused(grafted,
                                     collect_useful(grafted, <<t.start>>, <<t.start>>)))

\* A set of ids as the ascending vector (a sorted Vec<States>).
RECURSIVE Ascending(_)
Ascending(S) ==
    IF S = {} THEN <<>>
    ELSE LET m == CHOOSE x \in S : \A y \in S : x <= y IN <<m>> \o Ascending(S \ {m})

\* The vector `states` of reset_state_mark after states.sort().
sorted_states(t) == Ascending(t.states)

\* pos of reset_state_mark: m.get(x).unwrap(), where m maps the state at index
\* `index` of the sorted vector to set![index]; a state that is not in the
\* vector makes the unwrap panic.
pos(t, x) ==
    IF x \notin t.states THEN MissingKey
    ELSE LET states == sorted_states(t) IN
         (CHOOSE index \in DOMAIN states : states[index] = x) - 1

\* A variant of the closure below that leaves the destination as it is.
reset_edges_kept(t, edges) == edges

\* edges.iter().map(|x| Edge::new(pos(x.next_node()), x.matches().clone())).collect()
reset_edges(t, edges) ==
    [i \in DOMAIN edges |-> Edge(pos(t, edges[i].next_node), edges[i].matches)]

\* Whether reset_state_mark panics on t: pos is called on the start state, the
\* end states, the keys of trans and every edge destination.
reset_state_mark_panic(t) ==
    \/ t.start \notin t.states
    \/ ~(t.end \subseteq t.states)
    \/ ~(DOMAIN t.trans \subseteq t.states)
    \/ \E q \in DOMAIN t.trans : \E i \in DOMAIN t.trans[q] :
            t.trans[q][i].next_node \notin t.states

\* reset_state_mark
reset_state_mark(t) ==
    TransTable(pos(t, t.start),
               {pos(t, x) : x \in t.end},
               {pos(t, x) : x \in t.states},
               [k \in {pos(t, state) : state \in DOMAIN t.trans} |->
                   LET state == CHOOSE x \in DOMAIN t.trans : pos(t, x) = k
                   IN  reset_edges(t, t.trans[state])])

\* ------------------------------------------------- HashSet iteration order

RECURSIVE Perms(_)
Perms(S) ==
    IF S = {} THEN {<<>>}
    ELSE UNION {{<<x>> \o p : p \in Perms(S \ {x})} : x \in S}

\* The orders in which `self.epsilon_move(state).iter()` may yield the set S. A
\* HashSet yields its members in an order the program does not control, so every
\* order is possible. Members without a non-epsilon edge contribute only edges
\* that as_dfa removes again, so two orders that agree on the other members give
\* the same table: one order of each such class is enumerated.
IterOrders(t, S) ==
    LET live == {x \in S : has_nontrivial_edge(t, x)}
    IN  {p \o Ascending(S \ live) : p \in Perms(live)}

\* One iteration order for every state in qs.
RECURSIVE OrdersOver(_, _)
OrdersOver(t, qs) ==
    IF qs = {} THEN {EmptyTrans}
    ELSE LET q == CHOOSE x \in qs : TRUE
             others == OrdersOver(t, qs \ {q})
         IN  {[x \in DOMAIN f \cup {q} |-> IF x = q THEN p ELSE f[x]] :
                 f \in others, p \in IterOrders(t, epsilon_move(t, q))}

\* The iteration orders as_dfa may meet on table t (taken after its first block;
\* none is met when as_dfa panics before it).
Orders(t) ==
    IF as_dfa_panic_early(t) # "none" THEN {EmptyTrans}
    ELSE LET m == mark_end(t) IN
         OrdersOver(m, {q \in m.states : has_epsilon_edge(m, q)})

\* --------------------------------------------------------- execute_engine

\* trans.iter().find(|x| x.match_character(c as u8)): its index, 0 for None.
RECURSIVE find_edge(_, _, _)
find_edge(edges, i, c) ==
    IF i > Len(edges) THEN 0
    ELSE IF match_character(edges[i], c) THEN i
    ELSE find_edge(edges, i + 1, c)

\* The loop of exact_match over s.chars(), from the i-th char on.
RECURSIVE exact_match_from(_, _, _, _)
exact_match_from(t, s, i, state) ==
    IF i > Len(s) THEN [result |-> state \in t.end, panic |-> FALSE]
    ELSE IF state \notin DOMAIN t.trans THEN [result |-> FALSE, panic |-> TRUE]
    ELSE LET k == find_edge(t.trans[state], 1, AsU8(s[i])) IN
         IF k = 0 THEN [result |-> FALSE, panic |-> FALSE]
         ELSE exact_match_from(t, s, i + 1, t.trans[state][k].next_node)

\* ExecuteEngine::exact_match
exact_match(t, s) == exact_match_from(t, s, 1, t.start)


\* ---------------------------------------------------------------- bounds

\* Patterns are all strings of at most MaxPatternLen characters over
\* PatternChars, and the patterns of the repository's tests and documentation.
MaxPatternLen == 3
\* Inputs are all strings of at most MaxInputLen characters over InputChars.
MaxInputLen == 2

PatternChars ==
    {Ord["a"], Ord["b"], LPAREN, RPAREN, PIPE, LBRACKET, RBRACKET, STAR, PLUS, QUESTION, BACKSLASH}

\* s with caron, U+0161: a character outside the eight-bit range whose low
\* eight bits are those of `a`.
SCaron == Ord["a"] + 256

InputChars == {Ord["a"], Ord["b"], Ord["c"], SCaron}

Strings(chars, n) == UNION {[1..k -> chars] : k \in 0..n}

NamedPatterns ==
    { Str(<<"a", "\\", "d", "+", "b">>),                       \* a\d+b
      Str(<<"[", "a", "b", "]", "+", "\\", "d", "?">>),         \* [ab]+\d?
      Str(<<"(", "a", "+", "|", "b", "?", ")">>),               \* (a+|b?)
      Str(<<"[", "^", "\\", "d", "a", "b", "]", "+">>),         \* [^\dab]+
      Str(<<"(", "a", "|", "b", ")", "+", "c">>),               \* (a|b)+c
      Str(<<"(", "c", "|", "[", "a", "-", "z", "]", ")", "+">>),\* (c|[a-z])+
      Str(<<"[", "-", "c", "]", "*">>),                         \* [-c]*
      Str(<<"(", ".", "+", "|", "\\", "d", "+", ")", "?">>),    \* (.+|\d+)?
      Str(<<"a", "(", "b", "c", "|", "d", "x", ")", "z">>),     \* a(bc|dx)z
      Str(<<"(", "a", "b", "|", "a", "c", ")">>),               \* (ab|ac)
      Str(<<"(", "a", "*", ")", "*">>),                         \* (a*)*
      Str(<<"(", "(", "a", ")", ")">>),                         \* ((a))
      Str(<<"[", "a", "-", "x", "]">>),                         \* [a-x]
      Str(<<"[", "A", "-", "x", "]">>),                         \* [A-x]
      Str(<<"[", "0", "-", "x", "]">>),                         \* [0-x]
      Str(<<"[", "0", "-", "9", "A", "-", "Z", "]">>),          \* [0-9A-Z]
      Str(<<"(", "[", "a", "-", "x", "?", ")">>),               \* ([a-x?)
      Str(<<"[", "^", "-", "a", "]", "?">>),                    \* [^-a]?
      Str(<<"\\", "d">>),                                       \* \d
      Str(<<"[", "\\", "d", "]">>),                             \* [\d]
      Str(<<".", "+">>) }                                       \* .+

Patterns == Strings(PatternChars, MaxPatternLen) \cup NamedPatterns

Inputs == Strings(InputChars, MaxInputLen)

\* --------------------------------------------------------- state machine

\* No construction runs in parallel, no traversal is in progress.
NoWorkers == <<>>
NoWalk == [stack |-> <<>>, visited |-> {}, entered |-> <<>>, useful_states |-> <<>>, visit |-> <<>>]
\* No pair of edges is being tested.
NoProbe == [l |-> Edge(0, None), r |-> Edge(0, None), lr |-> FALSE, rl |-> FALSE]

Init ==
    /\ pattern \in Patterns
    /\ ID_SEQ = 0
    /\ pc = "new"
    /\ err = "none"
    /\ ast = NoItem
    /\ printed = <<>>
    /\ nfa = NFAGraph_from_id(0, 0)
    /\ table = NoTable
    /\ input = <<>>
    /\ matched = FALSE
    /\ prev = NoTable
    /\ prevMatched = FALSE
    /\ workers = NoWorkers
    /\ walk = NoWalk
    /\ probe = NoProbe

\* RegexItem::from: RegexParser { .. }.parse().unwrap()
Parse ==
    /\ pc = "new"
    /\ LET r == parse(pattern) IN
        IF r.ok
        THEN /\ ast' = r.item
             /\ pc' = "parsed"
             /\ err' = err
        ELSE /\ ast' = ast
             /\ pc' = "panic"
             /\ err' = IF r.panic THEN "assert_annotation" ELSE "unwrap_err"
    /\ UNCHANGED <<pattern, ID_SEQ, printed, nfa, table, input, matched, prev, prevMatched, workers, walk, probe>>

\* r.to_string()
ItemToString ==
    /\ pc = "parsed"
    /\ printed' = item_to_string(ast)
    /\ pc' = "printed"
    /\ UNCHANGED <<pattern, ID_SEQ, err, ast, nfa, table, input, matched, prev, prevMatched, workers, walk, probe>>

\* r.nfa_graph()
NfaGraph ==
    /\ pc = "parsed"
    /\ LET b == nfa_graph(ast, ID_SEQ) IN
        /\ ID_SEQ' = b.next
        /\ IF b.panic = "none"
           THEN /\ nfa' = b.g
                /\ pc' = "nfa"
                /\ err' = err
           ELSE /\ nfa' = nfa
                /\ pc' = "panic"
                /\ err' = b.panic
    /\ UNCHANGED <<pattern, ast, printed, table, input, matched, prev, prevMatched, workers, walk, probe>>

\* TransTable::from_nfa(&nfa)
FromNfa ==
    /\ pc = "nfa"
    /\ table' = from_nfa(nfa)
    /\ pc' = "table"
    /\ UNCHANGED <<pattern, ID_SEQ, err, ast, printed, nfa, input, matched, prev, prevMatched, workers, walk, probe>>

\* t.as_dfa()
AsDfa ==
    /\ pc = "table"
    /\ \E order \in Orders(table) :
         LET p == as_dfa_panic(table, order) IN
         IF p = "none"
         THEN /\ table' = as_dfa(table, order)
              /\ pc' = "dfa"
              /\ err' = err
         ELSE /\ table' = table
              /\ pc' = "panic"
              /\ err' = p
    /\ UNCHANGED <<pattern, ID_SEQ, ast, printed, nfa, input, matched, prev, prevMatched, workers, walk, probe>>

\* t.reset_state_mark(), on the table from_nfa built or after as_dfa.
ResetStateMark ==
    /\ pc \in {"table", "dfa"}
    /\ IF reset_state_mark_panic(table)
       THEN /\ table' = table
            /\ pc' = "panic"
            /\ err' = "reset_missing_key"
       ELSE /\ table' = reset_state_mark(table)
            /\ pc' = IF pc = "table" THEN "table_reset" ELSE "dfa_reset"
            /\ err' = err
    /\ UNCHANGED <<pattern, ID_SEQ, ast, printed, nfa, input, matched, prev, prevMatched, workers, walk, probe>>

\* ExecuteEngine::with_transtable(t).exact_match(s), and the same call on the
\* engine of the previous compilation when there is one.
ExactMatch ==
    /\ pc \in {"dfa", "dfa_reset"}
    /\ \E s \in Inputs :
         LET m == exact_match(table, s)
             pm == IF prev = NoTable THEN [result |-> FALSE, panic |-> FALSE]
                   ELSE exact_match(prev, s)
         IN  /\ input' = s
             /\ matched' = m.result
             /\ prevMatched' = pm.result
             /\ pc' = IF m.panic \/ pm.panic THEN "panic" ELSE "matched"
             /\ err' = IF m.panic \/ pm.panic THEN "exact_match_missing_key" ELSE err
    /\ UNCHANGED <<pattern, ID_SEQ, ast, printed, nfa, table, prev, workers, walk, probe>>

\* The same pattern is compiled once more: the table is kept and the driver
\* starts over; the counter goes on from where it is.
Recompile ==
    /\ pc = "dfa"
    /\ prev = NoTable
    /\ prev' = table
    /\ pc' = "new"
    /\ UNCHANGED <<pattern, ID_SEQ, err, ast, printed, nfa, table, input, matched, prevMatched, workers, walk, probe>>

Next == Parse \/ ItemToString \/ NfaGraph \/ FromNfa \/ AsDfa \/ ResetStateMark \/ ExactMatch

Spec == Init /\ [][Next]_vars

\* Two compilations of one pattern.
RecompilePatterns == Strings(PatternChars, MaxPatternLen - 1) \cup NamedPatterns

Init2 == Init /\ pattern \in RecompilePatterns

Next2 == Next \/ Recompile

Spec2 == Init2 /\ [][Next2]_vars

\* ------------------------------------------------- parallel constructions

\* A variant of the increment below that leaves the counter where it is.
fetch_add_stuck(seq) == seq

\* ID_SEQ.fetch_add(1, Ordering::SeqCst): the counter after the call (the call
\* returns the counter before it); one atomic step.
fetch_add(seq) == seq + 1

\* The threads that build an NFA at the same time.
Workers == {"w1", "w2"}

\* The patterns they build it for.
ParallelPatterns ==
    { Str(<<"a">>), Str(<<"a", "b">>), Str(<<"a", "+">>), Str(<<"[", "a", "b", "]">>),
      Str(<<"(", "a", "|", "b", ")", "*">>) }

\* The construction a worker runs, with the counter at 0: nfa_graph draws no
\* decision from the ids, so the k-th Node::new call of the construction is the
\* same call whatever the counter is, and in this graph its node has the id k.
WorkerBuilt(w) == nfa_graph(parse(workers[w].pattern).item, 0)

\* The number of Node::new calls the worker's construction makes.
WorkerCalls(w) == WorkerBuilt(w).next

WorkerDone(w) == Len(workers[w].ids) = WorkerCalls(w)

\* A node whose id and edge destinations are the ids the calls returned.
with_ids(node, ids) ==
    Node(ids[node.id + 1],
         [i \in DOMAIN node.edges |->
             Edge(ids[node.edges[i].next_node + 1], node.edges[i].matches)])

\* The graph the worker built, made of the nodes its Node::new calls returned.
RECURSIVE graph_with_ids(_, _)
graph_with_ids(g, ids) ==
    NFAGraph(with_ids(g.start, ids), with_ids(g.end, ids),
             [i \in DOMAIN g.sub_graphs |-> graph_with_ids(g.sub_graphs[i], ids)])

\* TransTable::from_nfa of the graph a worker has finished.
WorkerTable(w) == from_nfa(graph_with_ids(WorkerBuilt(w).g, workers[w].ids))

InitParallel ==
    /\ pattern = <<>>
    /\ ID_SEQ = 0
    /\ pc = "parallel"
    /\ err = "none"
    /\ ast = NoItem
    /\ printed = <<>>
    /\ nfa = NFAGraph_from_id(0, 0)
    /\ table = NoTable
    /\ input = <<>>
    /\ matched = FALSE
    /\ prev = NoTable
    /\ prevMatched = FALSE
    /\ workers \in [Workers -> [pattern : ParallelPatterns, ids : {<<>>}]]
    /\ walk = NoWalk
    /\ probe = NoProbe

\* Node::new() in worker w: Node { id: ID_SEQ.fetch_add(1, SeqCst), edges: vec![] }
NodeNew(w) ==
    /\ pc = "parallel"
    /\ ~WorkerDone(w)
    /\ workers' = [workers EXCEPT ![w].ids = Append(@, ID_SEQ)]
    /\ ID_SEQ' = fetch_add(ID_SEQ)
    /\ UNCHANGED <<pattern, pc, err, ast, printed, nfa, table, input, matched, prev,
                   prevMatched, walk, probe>>

NextParallel == \E w \in Workers : NodeNew(w)

SpecParallel == InitParallel /\ [][NextParallel]_vars

\* --------------------------------------------------------- Edge::intersect

\* The values of u8.
Bytes == 0..255

\* The bytes the tested predicates are made of.
ProbeBytes == {Ord["0"], Ord["a"], Ord["c"], Ord["z"]}

\* Character(c) and CharacterRange(s, e) with s <= e.
SimplePredicates ==
    {MCharacter(c) : c \in ProbeBytes} \cup
    {MCharacterRange(p[1], p[2]) : p \in {q \in ProbeBytes \X ProbeBytes : q[1] <= q[2]}}

\* A Not holds at most MaxNotLen predicates.
MaxNotLen == 1

\* The edges Edge::intersect is tested on: an epsilon edge, and an edge for
\* every predicate.
ProbeEdges ==
    {Edge(0, m) : m \in {None} \cup SimplePredicates
                        \cup {MNot(list) : list \in Strings(SimplePredicates, MaxNotLen)}}

InitIntersect ==
    /\ pattern = <<>>
    /\ ID_SEQ = 0
    /\ pc = "intersect"
    /\ err = "none"
    /\ ast = NoItem
    /\ printed = <<>>
    /\ nfa = NFAGraph_from_id(0, 0)
    /\ table = NoTable
    /\ input = <<>>
    /\ matched = FALSE
    /\ prev = NoTable
    /\ prevMatched = FALSE
    /\ workers = NoWorkers
    /\ walk = NoWalk
    /\ probe \in [l : ProbeEdges, r : ProbeEdges, lr : {FALSE}, rl : {FALSE}]

\* l.intersect(&r) and r.intersect(&l), as test_edge_intersect calls them.
Intersect ==
    /\ pc = "intersect"
    /\ probe' = [probe EXCEPT !.lr = intersect(probe.l, probe.r),
                              !.rl = intersect(probe.r, probe.l)]
    /\ pc' = "intersected"
    /\ UNCHANGED <<pattern, ID_SEQ, err, ast, printed, nfa, table, input, matched, prev,
                   prevMatched, workers, walk>>

NextIntersect == Intersect

SpecIntersect == InitIntersect /\ [][NextIntersect]_vars

\* ------------------------------------------------ traversals, step by step

\* A variant of the test below that never finds the state.
contains_never(visited, state) == FALSE

\* visited.contains(state)
contains(visited, state) == state \in visited

\* A frame of epsilon_move_internal: its state, and the position of its `for`
\* loop in the state's edge list (0 before the function's first statement).
Frame(state, edge) == [state |-> state, edge |-> edge]

\* The frames a stack can hold: the calls below the top one are on distinct
\* states, so a deeper stack is out of the program's reach.
StackLimit(t) == Cardinality(t.states) + 1

Top == walk.stack[Len(walk.stack)]
Popped == SubSeq(walk.stack, 1, Len(walk.stack) - 1)

WalkUnchanged == UNCHANGED <<pattern, ID_SEQ, ast, printed, nfa, input, matched, prev,
                             prevMatched, workers, probe>>

\* self.epsilon_move(state), up to its call of epsilon_move_internal(state, &mut r).
EpsilonMoveCall ==
    /\ pc = "table"
    /\ \E state \in table.states :
         walk' = [NoWalk EXCEPT !.stack = <<Frame(state, 0)>>]
    /\ pc' = "epsilon_move"
    /\ UNCHANGED <<table, err>>
    /\ WalkUnchanged

\* epsilon_move_internal from its first statement to the start of its loop:
\* return if the state is visited, else insert it and look up its edges.
InternalEnter ==
    /\ pc = "epsilon_move"
    /\ walk.stack # <<>>
    /\ Top.edge = 0
    /\ IF contains(walk.visited, Top.state)
       THEN /\ walk' = [walk EXCEPT !.stack = Popped]
            /\ UNCHANGED <<pc, err>>
       ELSE IF Top.state \notin DOMAIN table.trans
       THEN /\ walk' = [walk EXCEPT !.visited = @ \cup {Top.state}]
            /\ pc' = "panic"
            /\ err' = "missing_key"
       ELSE /\ walk' = [walk EXCEPT !.visited = @ \cup {Top.state},
                                    !.entered = Append(@, Top.state),
                                    !.stack = Append(Popped, Frame(Top.state, 1))]
            /\ UNCHANGED <<pc, err>>
    /\ UNCHANGED table
    /\ WalkUnchanged

\* One turn of the `for e in ... .filter(|x| x.matches().is_none())` loop: the
\* call on the destination of an epsilon edge, or the return after the last edge.
InternalLoop ==
    /\ pc = "epsilon_move"
    /\ walk.stack # <<>>
    /\ Top.edge >= 1
    /\ LET edges == table.trans[Top.state] IN
       IF Top.edge > Len(edges)
       THEN walk' = [walk EXCEPT !.stack = Popped]
       ELSE IF edges[Top.edge].matches.m = "None"
       THEN /\ Len(walk.stack) < StackLimit(table)
            /\ walk' = [walk EXCEPT !.stack = Append(Popped, Frame(Top.state, Top.edge + 1))
                                                \o <<Frame(edges[Top.edge].next_node, 0)>>]
       ELSE walk' = [walk EXCEPT !.stack = Append(Popped, Frame(Top.state, Top.edge + 1))]
    /\ UNCHANGED <<pc, err, table>>
    /\ WalkUnchanged

\* epsilon_move after the call: the filter over r, and the return.
EpsilonMoveReturn ==
    /\ pc = "epsilon_move"
    /\ walk.stack = <<>>
    /\ pc' = "moved"
    /\ UNCHANGED <<walk, err, table>>
    /\ WalkUnchanged

\* as_dfa up to its `while let Some(state) = visit.pop()` loop: the first two
\* blocks, then useful_states and visit hold the start state.
UsefulStart ==
    /\ pc = "table"
    /\ IF as_dfa_panic_early(table) # "none"
       THEN /\ pc' = "panic"
            /\ err' = as_dfa_panic_early(table)
            /\ UNCHANGED <<table, walk>>
       ELSE /\ \E order \in Orders(table) :
                 table' = generate_edges(mark_end(table), order)
            /\ walk' = [NoWalk EXCEPT !.useful_states = <<table.start>>,
                                      !.visit = <<table.start>>]
            /\ pc' = "collect"
            /\ err' = err
    /\ WalkUnchanged

\* One turn of the while loop: pop a state and scan its edges.
UsefulPop ==
    /\ pc = "collect"
    /\ walk.visit # <<>>
    /\ LET state == walk.visit[Len(walk.visit)]
           popped == SubSeq(walk.visit, 1, Len(walk.visit) - 1)
       IN  IF state \notin DOMAIN table.trans
           THEN /\ pc' = "panic"
                /\ err' = "missing_key"
                /\ walk' = [walk EXCEPT !.visit = popped]
           ELSE LET r == useful_scan(table.trans[state], 1, walk.useful_states, popped)
                IN  /\ walk' = [walk EXCEPT !.useful_states = r.useful_states,
                                            !.visit = r.visit]
                    /\ UNCHANGED <<pc, err>>
    /\ UNCHANGED table
    /\ WalkUnchanged

\* The loop ends with visit empty; the rest of as_dfa follows.
UsefulDone ==
    /\ pc = "collect"
    /\ walk.visit = <<>>
    /\ table' = remove_epsilon(remove_unused(table, walk.useful_states))
    /\ pc' = "dfa"
    /\ UNCHANGED <<walk, err>>
    /\ WalkUnchanged

\* The patterns whose tables are traversed step by step.
WalkPatterns == Strings(PatternChars, MaxPatternLen - 1) \cup NamedPatterns

InitWalk == Init /\ pattern \in WalkPatterns

Running == InternalEnter \/ InternalLoop \/ EpsilonMoveReturn \/ UsefulPop \/ UsefulDone

NextWalk == Parse \/ NfaGraph \/ FromNfa \/ EpsilonMoveCall \/ UsefulStart \/ Running

\* A call that has started goes on running: the thread is not stopped.
SpecWalk == InitWalk /\ [][NextWalk]_vars /\ WF_vars(Running)

\* ------------------------------------------------------------------------
\* Reference notions the properties are stated with.
\* ------------------------------------------------------------------------

\* The table from_nfa built for the current graph, before as_dfa changed it.
Raw == from_nfa(nfa)

\* The driver has a table that as_dfa has run on.
Compiled == pc \in {"dfa", "matched"}

\* parse has returned an item (whatever happened to it later).
ParseReturned == pc # "new" /\ err \notin {"assert_annotation", "unwrap_err"}

IsAscii(s) == \A k \in DOMAIN s : s[k] < 128

\* Whether byte c is in the set a single-character unit denotes.
UnitMatches(unit, c) ==
    CASE unit.u = "Character" -> c = unit.c
      [] unit.u = "CharacterRange" -> unit.c <= c /\ c <= unit.e
      [] unit.u = "NotCharacter" -> c # unit.c
      [] unit.u = "NotUnits" ->
            \A k \in DOMAIN unit.list :
                ~(IF unit.list[k].u = "Character" THEN c = unit.list[k].c
                  ELSE unit.list[k].c <= c /\ c <= unit.list[k].e)
      [] OTHER -> FALSE

\* The regular language of an item, by structural induction: UnitEnds(u, s, i) is
\* the set of j such that s[i+1..j] is in the language of u.
RECURSIVE UnitEnds(_, _, _)
RECURSIVE ItemEnds(_, _, _)
RECURSIVE ListEnds(_, _, _, _)
RECURSIVE RepeatEnds(_, _, _)

ListEnds(list, k, s, from) ==
    IF k > Len(list) THEN from
    ELSE ListEnds(list, k + 1, s, UNION {ItemEnds(list[k], s, i) : i \in from})

RepeatEnds(unit, s, acc) ==
    LET more == acc \cup UNION {UnitEnds(unit, s, j) : j \in acc} IN
    IF more = acc THEN acc ELSE RepeatEnds(unit, s, more)

UnitEnds(unit, s, i) ==
    CASE unit.u = "UnitChoice" -> UNION {UnitEnds(unit.list[k], s, i) : k \in DOMAIN unit.list}
      [] unit.u = "ItemChoice" -> UNION {ItemEnds(unit.list[k], s, i) : k \in DOMAIN unit.list}
      [] unit.u = "ItemList" -> ListEnds(unit.list, 1, s, {i})
      [] OTHER -> IF i < Len(s) /\ UnitMatches(unit, s[i + 1]) THEN {i + 1} ELSE {}

ItemEnds(item, s, i) ==
    CASE item.annotation = "OneOrZero" -> {i} \cup UnitEnds(item.unit, s, i)
      [] item.annotation = "GreaterZero" -> RepeatEnds(item.unit, s, UnitEnds(item.unit, s, i))
      [] item.annotation = "AnyOccurs" -> RepeatEnds(item.unit, s, {i})
      [] OTHER -> UnitEnds(item.unit, s, i)

InLanguage(item, s) == Len(s) \in ItemEnds(item, s, 0)

\* The byte encoding (UTF-8) of a string of code points below 0x10000.
RECURSIVE Utf8(_)
Utf8(s) ==
    IF s = <<>> THEN <<>>
    ELSE LET c == Head(s) IN
         (IF c < 128 THEN <<c>>
          ELSE IF c < 2048 THEN <<192 + (c \div 64), 128 + (c % 64)>>
          ELSE <<224 + (c \div 4096), 128 + ((c \div 64) % 64), 128 + (c % 64)>>)
         \o Utf8(Tail(s))

\* Malformed patterns: an unclosed `[` or `(`, a trailing `\`, a range a-, A-,
\* 0- whose endpoint is not z, Z, 9.
RECURSIVE MalformedFrom(_, _, _)
RECURSIVE MalformedClass(_, _, _)

RangeHigh(c) ==
    IF c = Ord["a"] THEN Ord["z"] ELSE IF c = Ord["A"] THEN Ord["Z"] ELSE Ord["9"]

MalformedClass(p, i, depth) ==
    IF i > Len(p) THEN TRUE
    ELSE IF p[i] = BACKSLASH THEN i = Len(p) \/ MalformedClass(p, i + 2, depth)
    ELSE IF p[i] = RBRACKET THEN MalformedFrom(p, i + 1, depth)
    ELSE IF p[i] \in {Ord["a"], Ord["A"], Ord["0"]} /\ i < Len(p) /\ p[i + 1] = MINUS
         THEN IF i + 2 <= Len(p) /\ p[i + 2] = RangeHigh(p[i])
              THEN MalformedClass(p, i + 3, depth) ELSE TRUE
    ELSE MalformedClass(p, i + 1, depth)

\* The position after the optional `^` and the optional `-` that open a class.
ClassBody(p, i) ==
    LET j == IF i <= Len(p) /\ p[i] = CARET THEN i + 1 ELSE i
    IN  IF j <= Len(p) /\ p[j] = MINUS THEN j + 1 ELSE j

MalformedFrom(p, i, depth) ==
    IF i > Len(p) THEN depth > 0
    ELSE IF p[i] = BACKSLASH THEN i = Len(p) \/ MalformedFrom(p, i + 2, depth)
    ELSE IF p[i] = LBRACKET THEN MalformedClass(p, ClassBody(p, i + 1), depth)
    ELSE IF p[i] = LPAREN THEN MalformedFrom(p, i + 1, depth + 1)
    ELSE IF p[i] = RPAREN THEN MalformedFrom(p, i + 1, IF depth > 0 THEN depth - 1 ELSE 0)
    ELSE MalformedFrom(p, i + 1, depth)

Malformed(p) == MalformedFrom(p, 1, 0)

\* The patterns of the grammar: pattern := item*, item := atom quantifier?,
\* atom := `[` class `]` | `(` alt `)` | `\` c | `.` | literal.
RECURSIVE GrammarFrom(_, _, _)
RECURSIVE GrammarClass(_, _, _)

GrammarQuantified(p, i, depth) ==
    IF i <= Len(p) /\ p[i] \in {QUESTION, PLUS, STAR}
    THEN GrammarFrom(p, i + 1, depth) ELSE GrammarFrom(p, i, depth)

GrammarClass(p, i, depth) ==
    IF i > Len(p) THEN FALSE
    ELSE IF p[i] = BACKSLASH THEN i < Len(p) /\ GrammarClass(p, i + 2, depth)
    ELSE IF p[i] = RBRACKET THEN GrammarQuantified(p, i + 1, depth)
    ELSE IF p[i] \in {Ord["a"], Ord["A"], Ord["0"]} /\ i < Len(p) /\ p[i + 1] = MINUS
         THEN i + 2 <= Len(p) /\ p[i + 2] = RangeHigh(p[i]) /\ GrammarClass(p, i + 3, depth)
    ELSE GrammarClass(p, i + 1, depth)

GrammarFrom(p, i, depth) ==
    IF i > Len(p) THEN depth = 0
    ELSE IF p[i] = BACKSLASH THEN i < Len(p) /\ GrammarQuantified(p, i + 2, depth)
    ELSE IF p[i] = LBRACKET THEN GrammarClass(p, ClassBody(p, i + 1), depth)
    ELSE IF p[i] = LPAREN THEN GrammarFrom(p, i + 1, depth + 1)
    ELSE IF p[i] = RPAREN THEN depth > 0 /\ GrammarQuantified(p, i + 1, depth - 1)
    ELSE IF p[i] = PIPE THEN depth > 0 /\ GrammarFrom(p, i + 1, depth)
    ELSE IF p[i] \in {QUESTION, PLUS, STAR, RBRACKET} THEN FALSE
    ELSE GrammarQuantified(p, i + 1, depth)

InGrammar(p) == GrammarFrom(p, 1, 0)

\* The pattern with every `\d` inside a class written as `0-9`.
RECURSIVE Canonical(_, _, _)
Canonical(p, i, inClass) ==
    IF i > Len(p) THEN <<>>
    ELSE IF p[i] = BACKSLASH /\ i < Len(p)
         THEN (IF inClass /\ p[i + 1] = Ord["d"] THEN <<Ord["0"], MINUS, Ord["9"]>>
               ELSE <<p[i], p[i + 1]>>) \o Canonical(p, i + 2, inClass)
    ELSE <<p[i]>> \o Canonical(p, i + 1,
                               IF p[i] = LBRACKET THEN TRUE
                               ELSE IF p[i] = RBRACKET THEN FALSE ELSE inClass)

\* The states reached from the set S along edges of t: epsilon edges only
\* (kind = "epsilon"), non-epsilon edges only ("nontrivial"), or all ("any").
Successors(t, S, kind) ==
    UNION {{t.trans[q][i].next_node :
                i \in {k \in DOMAIN t.trans[q] :
                          LET eps == t.trans[q][k].matches.m = "None" IN
                          \/ kind = "any"
                          \/ kind = "epsilon" /\ eps
                          \/ kind = "nontrivial" /\ ~eps}} :
           q \in S \cap DOMAIN t.trans}

RECURSIVE ReachFrom(_, _, _)
ReachFrom(t, S, kind) ==
    LET more == S \cup Successors(t, S, kind) IN
    IF more = S THEN S ELSE ReachFrom(t, more, kind)

\* The end state of the graph, the only member of the end set from_nfa builds.
NfaEnd == nfa.end.id

\* ------------------------------------------------------------------------
\* Properties
\* ------------------------------------------------------------------------

\* C1: match soundness. Whenever exact_match has returned for a pattern the
\* parser accepted and an ASCII input s, its result is TRUE exactly when s is in
\* the regular language of the parsed pattern.
C1_MatchSoundness ==
    (pc = "matched" /\ IsAscii(input)) => (matched = InLanguage(ast, input))

\* C2: determinism of compilation. When the same pattern has been compiled
\* twice, exact_match gives the same answer on both tables for every input.
C2_SameDecision ==
    (pc = "matched" /\ prev # NoTable) => (matched = prevMatched)

\* C3: a malformed pattern is never parsed into an item: whenever parse has
\* returned an item, the pattern is not malformed.
C3_MalformedIsError == ParseReturned => ~Malformed(pattern)

\* C4: once parse has returned an item, nfa_graph, from_nfa and as_dfa run
\* without a failed assertion, an unimplemented!() or a missing key.
C4_CompilationInfallible ==
    err \notin {"assert_list_len", "unimplemented", "assert_end_len", "missing_key"}

\* C5: round trip. For a pattern of the grammar, to_string of the parsed item is
\* the pattern again, `\d` inside a class being printed as `0-9`.
C5_RoundTrip ==
    (pc = "printed" /\ InGrammar(pattern)) => (printed = Canonical(pattern, 1, FALSE))

\* C7: byte-wise matching. exact_match decides a string as a walk over the
\* bytes of its encoding would, one transition per byte.
C7_ByteWise ==
    pc = "matched" => (matched = exact_match(table, Utf8(input)).result)


\* C6 as stated: after as_dfa the accepting set is never empty.
C6_AcceptingNonEmpty == pc = "dfa" => table.end # {}

\* C6 as amended: after as_dfa the accepting set is non-empty exactly when the
\* graph has a path from its start state to its end state (so it is empty for
\* `[]`, which no string matches), also when the end state itself is pruned.
C6_AcceptingNonEmptyIfEndReachable ==
    pc = "dfa" => ((table.end # {}) <=> (NfaEnd \in ReachFrom(Raw, {Raw.start}, "any")))

\* as_dfa pruned the end state of the graph and an accepting state survives.
C6_Witness == pc = "dfa" /\ NfaEnd \notin table.states /\ table.end # {}

\* C8: after as_dfa the table is closed under its own references.
C8_Closed ==
    pc = "dfa" =>
        /\ table.start \in table.states
        /\ table.end \subseteq table.states
        /\ DOMAIN table.trans = table.states
        /\ \A q \in DOMAIN table.trans : \A i \in DOMAIN table.trans[q] :
                table.trans[q][i].next_node \in table.states

\* as_dfa removed states, and the table left has accepting states and edges.
C8_Witness ==
    /\ pc = "dfa"
    /\ table.states # Raw.states
    /\ table.end # {}
    /\ \E q \in DOMAIN table.trans : table.trans[q] # <<>>

\* C9: accepting closure. After as_dfa every state left in the table from which
\* the graph has a path of epsilon edges to its end state is accepting.
C9_AcceptingClosure ==
    pc = "dfa" =>
        \A q \in table.states :
            NfaEnd \in ReachFrom(Raw, {q}, "epsilon") => q \in table.end

\* A surviving state other than the end state, more than one epsilon edge away
\* from it, is accepting.
C9_Witness ==
    /\ pc = "dfa"
    /\ \E q \in table.states \ {NfaEnd} :
          /\ NfaEnd \in ReachFrom(Raw, {q}, "epsilon")
          /\ NfaEnd \notin Successors(Raw, {q}, "epsilon")
          /\ q \in table.end

\* C10: reachability. After as_dfa every state of the state set, of the
\* accepting set and of the transition map is the start state or is reached
\* from it along non-epsilon edges of the table.
C10_Reachable ==
    pc = "dfa" =>
        LET reached == ReachFrom(table, {table.start}, "nontrivial") IN
        /\ table.states \subseteq reached
        /\ table.end \subseteq reached
        /\ DOMAIN table.trans \subseteq reached

\* as_dfa removed a state that from_nfa had put in all three, and kept others.
C10_Witness ==
    /\ pc = "dfa"
    /\ \E q \in Raw.states \cap Raw.end \cap DOMAIN Raw.trans :
          q \notin table.states \cup table.end \cup DOMAIN table.trans
    /\ Cardinality(table.states) >= 2

\* C11: epsilon-freedom. After as_dfa no edge of any edge list of the
\* transition map is an epsilon edge.
C11_EpsilonFree ==
    pc = "dfa" =>
        \A q \in DOMAIN table.trans : \A i \in DOMAIN table.trans[q] :
            table.trans[q][i].matches.m # "None"

\* A state that had an epsilon edge before as_dfa survives and has edges.
C11_Witness ==
    /\ pc = "dfa"
    /\ \E q \in DOMAIN table.trans :
          /\ has_epsilon_edge(Raw, q)
          /\ table.trans[q] # <<>>

\* The number of the old state x in the renumbering: how many old states are
\* smaller (the i-th smallest old state, counted from 0, gets i).
Rank(t, x) == Cardinality({y \in t.states : y < x})

\* table' is table renumbered through Rank.
RenumberedStep ==
    LET n == Cardinality(table.states) IN
    /\ pc' # "panic"
    /\ table'.states = 0..(n - 1)
    /\ table'.start = Rank(table, table.start)
    /\ table'.end = {Rank(table, x) : x \in table.end}
    /\ DOMAIN table'.trans = {Rank(table, x) : x \in DOMAIN table.trans}
    /\ \A q \in DOMAIN table.trans :
          LET old == table.trans[q]
              new == table'.trans[Rank(table, q)]
          IN  /\ Len(new) = Len(old)
              /\ \A i \in DOMAIN old :
                    /\ new[i].next_node = Rank(table, old[i].next_node)
                    /\ new[i].matches = old[i].matches

\* C12: renumbering. Every reset_state_mark step, on a table with n states,
\* leaves the state keys {0, ..., n-1} and the start state, the accepting set,
\* the keys of the transition map and every edge destination mapped through
\* the one mapping that sends the i-th smallest old id to i; predicates and the
\* order of each edge list are the old ones.
C12_Renumbered == [][ResetStateMark => RenumberedStep]_vars

\* reset_state_mark has run after as_dfa on a table whose ids had gaps, and the
\* table has accepting states and edges.
C12_Witness ==
    /\ pc = "dfa_reset"
    /\ ID_SEQ > Cardinality(table.states) + 2
    /\ table.end # {}
    /\ \E q \in DOMAIN table.trans : Len(table.trans[q]) >= 2

\* C13: exact_match never panics. On a table as_dfa has run on, renumbered or
\* not, exact_match never looks up a state that is not a key of the transition
\* map: every state the walk can be in is a key.
C13_MatchNeverPanics ==
    /\ err # "exact_match_missing_key"
    /\ pc \in {"dfa", "dfa_reset"} =>
          ReachFrom(table, {table.start}, "nontrivial") \subseteq DOMAIN table.trans

\* exact_match has walked a whole input of the greatest length on a table that
\* has a state without edges.
C13_Witness ==
    /\ pc = "matched"
    /\ matched
    /\ Len(input) = MaxInputLen
    /\ \E q \in DOMAIN table.trans : table.trans[q] = <<>>

\* The four patterns of the engine's tests.
PatternADigitsB == Str(<<"a", "\\", "d", "+", "b">>)
PatternAbDigit == Str(<<"[", "a", "b", "]", "+", "\\", "d", "?">>)
PatternAsOrB == Str(<<"(", "a", "+", "|", "b", "?", ")">>)
PatternNotDigitAB == Str(<<"[", "^", "\\", "d", "a", "b", "]", "+">>)

TestedPatterns == {PatternADigitsB, PatternAbDigit, PatternAsOrB, PatternNotDigitAB}

IsDigit(c) == Ord["0"] <= c /\ c <= Ord["9"]

\* The language of each of the four patterns, written out by hand.
TestedLanguage(p, s) ==
    CASE p = PatternADigitsB ->
            /\ Len(s) >= 3
            /\ s[1] = Ord["a"]
            /\ s[Len(s)] = Ord["b"]
            /\ \A k \in 2..(Len(s) - 1) : IsDigit(s[k])
      [] p = PatternAbDigit ->
            /\ Len(s) >= 1
            /\ s[1] \in {Ord["a"], Ord["b"]}
            /\ \A k \in 1..(Len(s) - 1) : s[k] \in {Ord["a"], Ord["b"]}
            /\ s[Len(s)] \in {Ord["a"], Ord["b"]} \/ IsDigit(s[Len(s)])
      [] p = PatternAsOrB ->
            \/ s = <<>>
            \/ s = <<Ord["b"]>>
            \/ \A k \in DOMAIN s : s[k] = Ord["a"]
      [] p = PatternNotDigitAB ->
            /\ Len(s) >= 1
            /\ \A k \in DOMAIN s : ~IsDigit(s[k]) /\ s[k] \notin {Ord["a"], Ord["b"]}
      [] OTHER -> FALSE

\* The strings the four patterns are decided on: one character longer than
\* the inputs of the driver, over a, b, c and the digit 0.
TestedChars == {Ord["a"], Ord["b"], Ord["c"], Ord["0"]}
TestedInputs == Strings(TestedChars, MaxInputLen + 1)

\* C14: for each of the four patterns, on the table after as_dfa, whichever
\* order the grafted edges were appended in, exact_match(s) is TRUE exactly for
\* the strings s of the pattern's language; the result exact_match gave for
\* the driver's input is that one too.
C14_TestedPatterns ==
    /\ (pc = "dfa" /\ pattern \in TestedPatterns) =>
           \A s \in TestedInputs :
               exact_match(table, s) = [result |-> TestedLanguage(pattern, s), panic |-> FALSE]
    /\ (pc = "matched" /\ pattern \in TestedPatterns /\ IsAscii(input)) =>
           (matched = TestedLanguage(pattern, input))

\* exact_match has rejected `ab` for a\d+b, and the table accepts `a0b`.
C14_Witness ==
    /\ pc = "matched"
    /\ pattern = PatternADigitsB
    /\ input = Str(<<"a", "b">>)
    /\ ~matched
    /\ exact_match(table, Str(<<"a", "0", "b">>)).result

\* No two Node::new calls have returned the same id; a finished table has one
\* state for each Node::new call of its construction; the tables of two
\* workers share no state.
FreshIds ==
    pc = "parallel" =>
        /\ \A w1 \in Workers, w2 \in Workers :
              \A k1 \in DOMAIN workers[w1].ids, k2 \in DOMAIN workers[w2].ids :
                  (w1 # w2 \/ k1 # k2) => workers[w1].ids[k1] # workers[w2].ids[k2]
        /\ \A w \in Workers :
              WorkerDone(w) => state_count(WorkerTable(w)) = WorkerCalls(w)
        /\ \A w1 \in Workers, w2 \in Workers :
              (w1 # w2 /\ WorkerDone(w1) /\ WorkerDone(w2)) =>
                  WorkerTable(w1).states \cap WorkerTable(w2).states = {}

\* C15: in every interleaving of the Node::new calls of constructions that run
\* in parallel, no two calls return the same id and the counter never goes
\* back; so the states of one table have distinct ids and the tables of two
\* constructions have disjoint ids.
C15_FreshIds == []FreshIds /\ [][ID_SEQ' >= ID_SEQ]_vars

\* Both constructions are finished and their Node::new calls were interleaved:
\* an id of the one lies between two ids of the other.
C15_Witness ==
    /\ pc = "parallel"
    /\ \A w \in Workers : WorkerDone(w)
    /\ \E i \in DOMAIN workers["w1"].ids, j \in DOMAIN workers["w2"].ids, k \in DOMAIN workers["w1"].ids :
          workers["w1"].ids[i] < workers["w2"].ids[j] /\ workers["w2"].ids[j] < workers["w1"].ids[k]

\* The states r other than q that are reached from q along epsilon edges only
\* and are accepting or have a non-epsilon edge.
NontrivialClosure(t, q) ==
    {r \in ReachFrom(t, {q}, "epsilon") \ {q} :
        \/ r \in t.end
        \/ \E i \in DOMAIN t.trans[r] : t.trans[r][i].matches.m # "None"}

\* C16: for every state q of a table built by from_nfa (renumbered or not),
\* epsilon_move(q) is exactly the set of the states r other than q that are
\* reached from q along epsilon edges only and are accepting or have a
\* non-epsilon edge.
C16_EpsilonMove ==
    pc \in {"table", "table_reset"} =>
        \A q \in table.states : epsilon_move(table, q) = NontrivialClosure(table, q)

\* The renumbered table of (a|b)+c: the epsilon_move of state 3, which goes
\* round the repetition, is {2, 4, 6}, that of state 0 is {2, 4} and that of
\* state 6 is empty.
C16_Witness ==
    /\ pc = "table_reset"
    /\ pattern = Str(<<"(", "a", "|", "b", ")", "+", "c">>)
    /\ Cardinality(table.states) = 8
    /\ epsilon_move(table, 3) = {2, 4, 6}
    /\ 0 \in ReachFrom(table, {3}, "epsilon")
    /\ epsilon_move(table, 0) = {2, 4}
    /\ epsilon_move(table, 6) = {}

\* The edges of a list that have a predicate, in the order of the list.
NonEpsilon(edges) == SelectSeq(edges, LAMBDA e : e.matches.m # "None")

\* How many times edge e is in the list.
Copies(edges, e) == Cardinality({i \in DOMAIN edges : edges[i] = e})

\* The edge list of q after as_dfa is q's own non-epsilon edges as from_nfa
\* built them, then one copy of each non-epsilon edge that from_nfa built for
\* each state of epsilon_move(q), and nothing else.
Grafted(q) ==
    LET own == NonEpsilon(Raw.trans[q])
        list == table.trans[q]
        tail == SubSeq(list, Len(own) + 1, Len(list))
        closure == epsilon_move(Raw, q)
    IN  /\ Len(list) >= Len(own)
        /\ SubSeq(list, 1, Len(own)) = own
        /\ \A r \in closure : \A e \in Range(NonEpsilon(Raw.trans[r])) : Copies(tail, e) = 1
        /\ \A e \in Range(tail) : \E r \in closure : e \in Range(NonEpsilon(Raw.trans[r]))
        /\ \A e \in Range(own) : Copies(list, e) = 1
        /\ ~has_epsilon_edge(Raw, q) => list = Raw.trans[q]

\* C17: grafting. After as_dfa the edge list of every surviving state starts
\* with its own original non-epsilon edges in their order, followed by exactly
\* one copy of each original non-epsilon edge of each state of its
\* epsilon_move; a state without an epsilon edge keeps exactly its edges, and
\* no edge of a state's own is twice in its list.
C17_Grafted == pc = "dfa" => \A q \in table.states : Grafted(q)

\* A surviving state with an edge of its own got the edges of another state,
\* and a surviving state got the edges of two other states.
C17_Witness ==
    /\ pc = "dfa"
    /\ \E q \in table.states :
          /\ NonEpsilon(Raw.trans[q]) # <<>>
          /\ \E r \in epsilon_move(Raw, q) : NonEpsilon(Raw.trans[r]) # <<>>
          /\ Len(table.trans[q]) >= 2
    /\ \E q \in table.states :
          /\ Cardinality({r \in epsilon_move(Raw, q) : NonEpsilon(Raw.trans[r]) # <<>>}) >= 2
          /\ Len(table.trans[q]) >= 2

\* The items of an item: itself and the items nested in it.
RECURSIVE SubItems(_)
SubItems(item) ==
    {item} \cup
    (IF item.unit.u \in {"ItemList", "ItemChoice"}
     THEN UNION {SubItems(item.unit.list[k]) : k \in DOMAIN item.unit.list}
     ELSE {})

\* The number of edges held by the nodes of a graph and of its sub graphs.
RECURSIVE GraphEdges(_)
RECURSIVE SubGraphEdges(_, _)
SubGraphEdges(subs, i) ==
    IF i > Len(subs) THEN 0 ELSE GraphEdges(subs[i]) + SubGraphEdges(subs, i + 1)
GraphEdges(g) == Len(g.start.edges) + Len(g.end.edges) + SubGraphEdges(g.sub_graphs, 1)

\* With the counter at `next`, the graph of the item is the graph of its unit,
\* start s and end e, with the edges of its quantifier appended and no state
\* made: s to e for `?`, e to s for `+`, both for `*`, none otherwise.
QuantifierEdges(item, next) ==
    LET u == unit_nfa_graph(item.unit, next)
        g == nfa_graph(item, next)
        s == u.g.start.id
        e == u.g.end.id
        forward == IF item.annotation \in {"OneOrZero", "AnyOccurs"}
                   THEN <<[matches |-> None, next_node |-> e]>> ELSE <<>>
        back == IF item.annotation \in {"GreaterZero", "AnyOccurs"}
                THEN <<[matches |-> None, next_node |-> s]>> ELSE <<>>
    IN  u.panic = "none" =>
           /\ g.panic = "none"
           /\ g.next = u.next
           /\ g.g.start.id = s /\ g.g.end.id = e
           /\ g.g.start.edges = u.g.start.edges \o forward
           /\ g.g.end.edges = u.g.end.edges \o back
           /\ g.g.sub_graphs = u.g.sub_graphs
           /\ from_nfa(g.g).states = from_nfa(u.g).states
           /\ from_nfa(g.g).end = {e}

\* C18: quantifier wiring. For every item of a parsed pattern, nfa_graph adds to
\* the graph of the item's unit the edges of the quantifier and no state; the
\* graph has the single end state e, and the table from_nfa builds from the
\* whole graph has one state for each Node::new call and counts each edge of
\* the graph once.
C18_QuantifierEdges ==
    (pc = "nfa" /\ prev = NoTable) =>
        /\ \A item \in SubItems(ast) : QuantifierEdges(item, 0) /\ QuantifierEdges(item, ID_SEQ)
        /\ state_count(Raw) = ID_SEQ
        /\ edge_count(Raw) = GraphEdges(nfa)
        /\ Raw.end = {nfa.end.id}

\* The graph of (.+|\d+)? is built: it has items with `+` and `?`, and its
\* table has 6 states and 9 edges.
C18_Witness ==
    /\ pc = "nfa"
    /\ pattern = Str(<<"(", ".", "+", "|", "\\", "d", "+", ")", "?">>)
    /\ \E item \in SubItems(ast) : item.annotation = "GreaterZero"
    /\ \E item \in SubItems(ast) : item.annotation = "OneOrZero"
    /\ state_count(Raw) = 6
    /\ edge_count(Raw) = 9

\* No state is twice in a sequence.
NoRepeat(seq) == \A i \in DOMAIN seq, j \in DOMAIN seq : i # j => seq[i] # seq[j]

\* epsilon_move_internal has run its body at most once on each state, and the
\* reachability loop has pushed each state at most once; when epsilon_move
\* returns, the states visited are those reached along epsilon edges.
EachStateOnce ==
    /\ NoRepeat(walk.entered)
    /\ NoRepeat(walk.useful_states)
    /\ Len(walk.stack) <= StackLimit(table)
    /\ pc = "moved" =>
          walk.visited = ReachFrom(table, {walk.entered[1]}, "epsilon")

\* C19: termination. On every table built from a parsed pattern, tables with
\* epsilon cycles included, every call of epsilon_move returns and has entered
\* each state at most once, and the reachability loop of as_dfa ends.
C19_Terminates ==
    /\ []EachStateOnce
    /\ (pc = "epsilon_move") ~> (pc = "moved")
    /\ (pc = "collect") ~> (pc = "dfa")

\* epsilon_move has returned on the table of (a*)*, from a state that lies on
\* an epsilon cycle, after it entered four states or more.
C19_Witness ==
    /\ pc = "moved"
    /\ pattern = Str(<<"(", "a", "*", ")", "*">>)
    /\ Len(walk.entered) >= 4
    /\ walk.entered[1] \in
          ReachFrom(table, Successors(table, {walk.entered[1]}, "epsilon"), "epsilon")

\* The states reached from a state of S along one edge that matches byte c.
Step(t, S, c) ==
    UNION {{t.trans[q][i].next_node :
                i \in {k \in DOMAIN t.trans[q] : match_character(t.trans[q][k], c)}} :
           q \in S \cap DOMAIN t.trans}

\* The states a nondeterministic run of t on s[i..] can end in, from the set S
\* (closed under epsilon edges).
RECURSIVE RunFrom(_, _, _, _)
RunFrom(t, s, i, S) ==
    IF i > Len(s) THEN S
    ELSE RunFrom(t, s, i + 1, ReachFrom(t, Step(t, S, s[i]), "epsilon"))

\* t, read as a nondeterministic automaton, accepts s: some path of epsilon
\* edges and of edges matching the bytes of s leads from start to the end set.
Accepts(t, s) == RunFrom(t, s, 1, ReachFrom(t, {t.start}, "epsilon")) \cap t.end # {}

\* C20: language equivalence. The table after as_dfa, read as a
\* nondeterministic automaton, accepts exactly the strings that the graph
\* nfa_graph built, with its epsilon edges and its single end state, accepts.
C20_SameLanguage ==
    pc = "dfa" =>
        \A s \in Strings(TestedChars, MaxInputLen) : Accepts(table, s) = Accepts(Raw, s)

\* as_dfa removed states and epsilon edges of a graph that accepts a string of
\* two bytes or more, and the table accepts a string that exact_match, which
\* follows the first matching edge, rejects.
C20_Witness ==
    /\ pc = "dfa"
    /\ table.states # Raw.states
    /\ \E q \in DOMAIN Raw.trans : has_epsilon_edge(Raw, q)
    /\ \E s \in TestedInputs :
          Len(s) >= 2 /\ Accepts(Raw, s) /\ Accepts(table, s) /\ ~exact_match(table, s).result

\* Both edges have a predicate and some byte is matched by both.
Overlap(l, r) ==
    /\ l.matches.m # "None"
    /\ r.matches.m # "None"
    /\ \E b \in Bytes : match_character(l, b) /\ match_character(r, b)

\* C21: Edge::intersect(l, r) is TRUE exactly when both edges have a predicate
\* and some byte is matched by both predicates, and r.intersect(l) gives the
\* answer l.intersect(r) gives.
C21_IntersectIsOverlap ==
    pc = "intersected" =>
        /\ probe.lr = Overlap(probe.l, probe.r)
        /\ probe.rl = probe.lr

=============================================================================
